---- MODULE Spec2Model ----
(***************************************************************************)
(* Text-layout and font-decoding engine of "ili97xx Raspberry pi":         *)
(* writer.py (the Writer class and _get_char_addr) drawing on the surface  *)
(* that ili9341.py (the ILI9341 class) offers.                             *)
(*                                                                         *)
(* A font is a Python bytes object: a sequence of bytes, indexed from 0,   *)
(* with Python's indexing (a negative index counts from the end, an index  *)
(* outside the object raises IndexError).                                  *)
(***************************************************************************)
EXTENDS Integers, Sequences, FiniteSets, TLC

\* ------------------------------------------------------------------------
\* Header positions of the font, writer.py:41-48
TWO_BYTE_INDEX == 0
ONE_BYTE_INDEX == 1
MAX_CHARS == 2
HEIGHT == 3
WIDTH == 4
MISSING == 5
FIRST_CHAR == 6
LAST_CHAR == 7

\* Colours, ili9341.py:75-82 (RGB565)
BLACK == 0
RED == 63488
WHITE == 65535

\* Commands of the display controller, ili9341.py:31-33
CASET == 42
PASET == 43
RAMWR == 44

\* Python's None (a transparent background), and the outcome "IndexError
\* was raised" of an operator that reads the font.  Bytes, addresses and
\* colours are all >= 0.
None == 0 - 1
IndexError == 0 - 2

\* Python's True as draw_char returns it (writer.py:93): True == 1
PyTrue == 1

\* _VERBOSE and _NO_VERBOSE, writer.py:51-52
VERBOSE == TRUE
NO_VERBOSE == FALSE

\* ------------------------------------------------------------------------
\* Bounds of the model
MaxLen == 2        \* longest string handed to printstring

\* Character codes the application prints: ' ', 'A', 'B'
Chars == {32, 65, 66}

RECURSIVE SeqsUpTo(_, _)
SeqsUpTo(S, n) ==
    IF n = 0 THEN {<<>>}
    ELSE LET shorter == SeqsUpTo(S, n - 1)
         IN  shorter \cup {Append(s, c) : s \in shorter, c \in S}

Strings == SeqsUpTo(Chars, MaxLen)

\* ------------------------------------------------------------------------
\* Python indexing of a bytes object: font[i]
PyGet(f, i) ==
    IF i >= 0 /\ i < Len(f) THEN f[i + 1]
    ELSE IF i < 0 /\ i >= 0 - Len(f) THEN f[Len(f) + i + 1]
    ELSE IndexError

\* bit number b (0 = least significant) of a byte: byte & (1 << b)
Bit(byte, b) == (byte \div (2 ^ b)) % 2

\* IsMissing with the lower bound read at FIRST_CHAR
IsMissingFirstChar(f, letter) ==
    letter >= PyGet(f, LAST_CHAR) \/ letter < PyGet(f, FIRST_CHAR)

\* The test of writer.py:59 and :66: is the letter replaced by the missing
\* character?  (MISSING + 2 is where the code reads the first character.)
IsMissing(f, letter) ==
    letter >= PyGet(f, LAST_CHAR) \/ letter < PyGet(f, MISSING + 2)

\* The letter after the substitution of writer.py:59-60 / 66-67
Substitute(f, letter) ==
    IF IsMissing(f, letter) THEN PyGet(f, MISSING) ELSE letter

\* The directory index of writer.py:61 / :68
DirIndex(f, letter) == Substitute(f, letter) - PyGet(f, MISSING + 2)

\* _get_char_addr(font, letter), writer.py:55-72.  IndexError when one of
\* its reads of the font raises.
GetCharAddr(f, letter) ==
    IF Len(f) <= LAST_CHAR \/ PyGet(f, PyGet(f, MAX_CHARS)) = IndexError
    THEN IndexError
    ELSE
    LET start == PyGet(f, MAX_CHARS)
        two   == PyGet(f, start) = TWO_BYTE_INDEX
        index == start + 1
        l     == DirIndex(f, letter)
        idx   == IF two THEN index + l * 2 ELSE index + l
        hi    == PyGet(f, idx)
        lo    == PyGet(f, idx + 1)
        offset == IF two THEN hi * 256 + lo ELSE hi
        corr  == (PyGet(f, LAST_CHAR) - PyGet(f, MISSING + 2))
                     * (IF two THEN 1 ELSE 0)
    IN  IF hi = IndexError \/ (two /\ lo = IndexError) THEN IndexError
        ELSE offset + index + 1 + corr

\* The last lines of _char_width, writer.py:197-198: the byte before the
\* address a
WidthAt(f, a) == IF a = IndexError THEN IndexError ELSE PyGet(f, a - 1)

\* The substitution of '0' for a space, writer.py:190-191
MapSpace(ms, char_code) == IF ms /\ char_code = 32 THEN 48 ELSE char_code

\* _char_width after its first lookup gave a0, writer.py:184-198
CharWidthFrom(f, ms, char_code, a0) ==
    IF a0 = IndexError THEN IndexError
    ELSE IF a0 = 0 THEN 0
    ELSE WidthAt(f, GetCharAddr(f, Substitute(f, MapSpace(ms, char_code))))

\* Writer._char_width(char_code), writer.py:182-198
CharWidth(f, ms, char_code) ==
    CharWidthFrom(f, ms, char_code, GetCharAddr(f, char_code))

\* StringLenFrom with a pixel taken off between two characters
RECURSIVE StringLenKern(_, _, _, _)
StringLenKern(f, ms, l, s) ==
    IF s = <<>> THEN l
    ELSE IF CharWidth(f, ms, Head(s)) = IndexError THEN IndexError
    ELSE StringLenKern(f, ms,
                       l + CharWidth(f, ms, Head(s)) - (IF l > 0 THEN 1 ELSE 0),
                       Tail(s))

\* The loop of Writer.stringlen, writer.py:173-174, with l so far and the
\* characters s to come; StringLenAdd is line 174 with the width cw that
\* _char_width gave
RECURSIVE StringLenFrom(_, _, _, _)
RECURSIVE StringLenAdd(_, _, _, _, _)
StringLenAdd(f, ms, l, cw, rest) ==
    IF cw = IndexError THEN IndexError
    ELSE StringLenFrom(f, ms, l + cw, rest)

StringLenFrom(f, ms, l, s) ==
    IF s = <<>> THEN l
    ELSE StringLenAdd(f, ms, l, CharWidth(f, ms, Head(s)), Tail(s))

\* Writer.stringlen(s), writer.py:171-175
StringLen(f, ms, s) == StringLenFrom(f, ms, 0, s)

\* ------------------------------------------------------------------------
\* The surface.  A call on the device is a record; the display memory is a
\* colour for every pixel of the surface.
PixelOp(px, py, c) == [op |-> "pixel", x |-> px, y |-> py, c |-> c]
FillOp(c) == [op |-> "fill", x |-> 0, y |-> 0, c |-> c]
NoOp == [op |-> "skip", x |-> 0, y |-> 0, c |-> 0]
IsWrite(o) == o.op # "skip"

\* ILI9341.pixel, ili9341.py:208-212: a pixel outside the surface is dropped
Pixel(g, w, h, px, py, c) ==
    IF 0 <= px /\ px < w /\ 0 <= py /\ py < h
    THEN [g EXCEPT ![<<px, py>>] = c]
    ELSE g

\* ILI9341.fill, ili9341.py:242-243: fill_rectangle(0, 0, width, height)
Fill(g, c) == [p \in DOMAIN g |-> c]

ApplyOp(g, w, h, o) ==
    IF o.op = "pixel" THEN Pixel(g, w, h, o.x, o.y, o.c)
    ELSE IF o.op = "fill" THEN Fill(g, o.c)
    ELSE g

RECURSIVE ApplyOps(_, _, _, _)
ApplyOps(g, w, h, os) ==
    IF os = <<>> THEN g
    ELSE ApplyOps(ApplyOp(g, w, h, Head(os)), w, h, Tail(os))

\* The bus.  A transfer is what one _write_cmd or _write_data puts on the
\* SPI bus between cs low and cs high: the level of dc and the bytes.
\* _write_cmd, ili9341.py:109-113, and _write_data, :115-119
WriteCmd(cmd) == [dc |-> 0, data |-> <<cmd>>]
WriteData(data) == [dc |-> 1, data |-> data]

\* ustruct.pack(">H", v): two bytes, the high one first
Pack16(v) == <<(v \div 256) % 256, v % 256>>

\* ILI9341._set_window(x0, y0, x1, y1), ili9341.py:201-206
SetWindow(x0, y0, x1, y1) ==
    <<WriteCmd(CASET), WriteData(Pack16(x0) \o Pack16(x1)),
      WriteCmd(PASET), WriteData(Pack16(y0) \o Pack16(y1)),
      WriteCmd(RAMWR)>>

\* BusPixel without the test of ili9341.py:209
BusPixelNoCheck(w, h, px, py, c) ==
    SetWindow(px, py, px, py) \o <<WriteData(Pack16(c))>>

\* The transfers of ILI9341.pixel(x, y, color), ili9341.py:208-212, on a
\* display of width w and height h
BusPixel(w, h, px, py, c) ==
    IF ~(0 <= px /\ px < w /\ 0 <= py /\ py < h) THEN <<>>
    ELSE SetWindow(px, py, px, py) \o <<WriteData(Pack16(c))>>

\* The pins.  A call on ILI9341 is, on the wires, a sequence of events:
\* cs.value(v), dc.value(v) and spi.write(data * times), the bytes data
\* repeated times times.
CsValue(v) == [pin |-> "cs", v |-> v, data |-> <<>>, times |-> 0]
DcValue(v) == [pin |-> "dc", v |-> v, data |-> <<>>, times |-> 0]
SpiWrite(data, times) ==
    [pin |-> "spi", v |-> 0, data |-> data, times |-> times]

\* WireOf without the cs.value(1) of ili9341.py:113 and :119
WireOfOpen(t) == <<CsValue(0), DcValue(t.dc), SpiWrite(t.data, 1)>>

\* The events of one _write_cmd or _write_data, ili9341.py:109-119
WireOf(t) ==
    <<CsValue(0), DcValue(t.dc), SpiWrite(t.data, 1), CsValue(1)>>

\* The events of a sequence of transfers
RECURSIVE WireAll(_)
WireAll(ts) ==
    IF ts = <<>> THEN <<>> ELSE WireOf(Head(ts)) \o WireAll(Tail(ts))

\* The level of the pin after the events of wire, from the level v0: the
\* level its last event set
LevelAfter(v0, wire, pin) ==
    LET on == {i \in DOMAIN wire : wire[i].pin = pin}
    IN  IF on = {} THEN v0
        ELSE wire[CHOOSE i \in on : \A j \in on : j <= i].v

\* The levels of cs and dc after the events of wire, from the levels p
PinsAfter(p, wire) ==
    [cs |-> LevelAfter(p.cs, wire, "cs"),
     dc |-> LevelAfter(p.dc, wire, "dc")]

\* The events of ILI9341.pixel(px, py, c), ili9341.py:208-212
WirePixel(w, h, px, py, c) == WireAll(BusPixel(w, h, px, py, c))

Min(a, b) == IF a <= b THEN a ELSE b
Max(a, b) == IF a >= b THEN a ELSE b

\* chunk_size and pixels_per_chunk of fill_rectangle, ili9341.py:223-224
CHUNK_SIZE == 512
PixelsPerChunk == CHUNK_SIZE \div 2

\* fill_rectangle, ili9341.py:215-216: x = min(width - 1, max(0, x))
ClampStart(size, start) == Min(size - 1, Max(0, start))

\* ClampLen without the start subtracted from the size
ClampLenWhole(size, start, len) == Min(size, Max(1, len))

\* fill_rectangle, ili9341.py:217-218: w = min(width - x, max(1, w)), with
\* x already clamped
ClampLen(size, start, len) == Min(size - start, Max(1, len))

\* The data phase of fill_rectangle, ili9341.py:227-238: num_pixels colour
\* values in whole buffers of pixels_per_chunk and a remainder, between
\* cs low and cs high
FillData(c, num_pixels) ==
    <<CsValue(0), DcValue(1)>>
        \o [i \in 1 .. (num_pixels \div PixelsPerChunk) |->
               SpiWrite(Pack16(c), PixelsPerChunk)]
        \o (IF num_pixels % PixelsPerChunk > 0
            THEN <<SpiWrite(Pack16(c), num_pixels % PixelsPerChunk)>>
            ELSE <<>>)
        \o <<CsValue(1)>>

\* The events of ILI9341.fill_rectangle(px, py, rw, rh, c),
\* ili9341.py:214-239, on a display of width w and height h
WireFillAt(x0, y0, rw, rh, c) ==
    WireAll(SetWindow(x0, y0, x0 + rw - 1, y0 + rh - 1))
        \o FillData(c, rw * rh)

WireFillRectangle(w, h, px, py, rw, rh, c) ==
    LET x0 == ClampStart(w, px)
        y0 == ClampStart(h, py)
    IN  WireFillAt(x0, y0, ClampLen(w, x0, rw), ClampLen(h, y0, rh), c)

\* ILI9341.fill, hline and vline, ili9341.py:242-249
WireFill(w, h, c) == WireFillRectangle(w, h, 0, 0, w, h, c)
WireHline(w, h, px, py, rw, c) == WireFillRectangle(w, h, px, py, rw, 1, c)
WireVline(w, h, px, py, rh, c) == WireFillRectangle(w, h, px, py, 1, rh, c)

\* The events of a call the Writer makes on the device
WireOp(w, h, o) ==
    IF o.op = "pixel" THEN WirePixel(w, h, o.x, o.y, o.c)
    ELSE IF o.op = "fill" THEN WireFill(w, h, o.c)
    ELSE <<>>

\* The levels of cs and dc after the calls os on the device
RECURSIVE PinsAfterOps(_, _, _, _)
PinsAfterOps(p, w, h, os) ==
    IF os = <<>> THEN p
    ELSE PinsAfterOps(PinsAfter(p, WireOp(w, h, Head(os))), w, h, Tail(os))

\* The pins after ILI9341.__init__, ili9341.py:99-107, which ends with
\* fill(BLACK)
PinsOn == [cs |-> 1, dc |-> 1]

\* ------------------------------------------------------------------------
\* The DS3231 clock, ds3231.py

\* Register addresses, ds3231.py:9-19
REG_SECS == 0
REG_CTRL == 14
REG_STATUS == 15

\* a & b of two naturals
RECURSIVE BitAnd(_, _)
BitAnd(a, b) ==
    IF a = 0 \/ b = 0 THEN 0
    ELSE (a % 2) * (b % 2) + 2 * BitAnd(a \div 2, b \div 2)

\* val & ~(1 << bit) of a byte, ds3231.py:54
BitClear(val, bit) == val - Bit(val, bit) * (2 ^ bit)

\* bcd_to_dec read as the identity
bcd_to_dec_raw(bcd) == bcd

\* bcd_to_dec and dec_to_bcd, ds3231.py:22-26
bcd_to_dec(bcd) == (bcd \div 16) * 10 + (bcd % 16)
dec_to_bcd(dec) == (dec \div 10) * 16 + (dec % 10)

\* i2c.readfrom_mem_into(addr, reg, buf) for a buffer of n bytes and
\* i2c.writeto_mem(addr, reg, buf), on registers that keep what is
\* written; regs[a + 1] is the register of address a
ReadMem(regs, reg, n) == [i \in 1 .. n |-> regs[reg + i]]
WriteMem(regs, reg, buf) ==
    [a \in DOMAIN regs |->
        IF a > reg /\ a <= reg + Len(buf) THEN buf[a - reg] ELSE regs[a]]

\* DS3231._clear_bit(reg, bit), ds3231.py:52-55, with _read_reg and
\* _write_reg, :39-45, on the clock r
ClearBit(r, reg, bit) ==
    LET val == BitClear(ReadMem(r.regs, reg, 1)[1], bit)
    IN  [r EXCEPT !.buf1 = <<val>>,
                  !.regs = WriteMem(r.regs, reg, <<val>>)]

\* The bytes datetime(dt) puts in buf7, ds3231.py:90-104
SetBytes(year, month, mday, wday, hour, minute, sec) ==
    <<BitAnd(dec_to_bcd(sec), 127),
      BitAnd(dec_to_bcd(minute), 127),
      BitAnd(dec_to_bcd(hour), 63),
      BitAnd(dec_to_bcd(wday), 7),
      BitAnd(dec_to_bcd(mday), 63),
      BitAnd(dec_to_bcd(month), 31) + (IF year >= 2100 THEN 128 ELSE 0),
      dec_to_bcd(year % 100)>>

\* The hour datetime() reads from the hour register, ds3231.py:70-78
GetHour(hour_reg) ==
    IF BitAnd(hour_reg, 64) # 0
    THEN LET hour == bcd_to_dec(BitAnd(hour_reg, 31))
         IN  IF BitAnd(hour_reg, 32) # 0 /\ hour # 12 THEN hour + 12
             ELSE IF BitAnd(hour_reg, 32) = 0 /\ hour = 12 THEN 0
             ELSE hour
    ELSE bcd_to_dec(BitAnd(hour_reg, 63))

\* The tuple datetime() returns for the bytes read into buf7,
\* ds3231.py:68-86
GetTuple(buf) ==
    <<bcd_to_dec(buf[7]) + 2000,
      bcd_to_dec(BitAnd(buf[6], 31)),
      bcd_to_dec(BitAnd(buf[5], 63)),
      bcd_to_dec(BitAnd(buf[4], 7)),
      GetHour(buf[3]),
      bcd_to_dec(BitAnd(buf[2], 127)),
      bcd_to_dec(BitAnd(buf[1], 127)),
      0>>

\* Register contents the driver may find: the clock as it powers up
\* (00:00:00, day 1, 01/01/00, oscillator-stop flag set), and a clock left
\* in 12-hour mode at 5 PM and at 12 AM
RegsWith(hour_reg) ==
    <<0, 0, hour_reg, 1, 1, 1, 0>> \o [i \in 1 .. 7 |-> 0]
        \o <<28, 136>> \o [i \in 1 .. 3 |-> 0]
RegImages == {RegsWith(0), RegsWith(101), RegsWith(82)}

\* DS3231.__init__, ds3231.py:29-37, on registers regs
RtcNew(regs) ==
    ClearBit(ClearBit([regs |-> regs, buf1 |-> <<0>>,
                       buf7 |-> [i \in 1 .. 7 |-> 0],
                       op |-> "init", dt |-> <<>>, ret |-> <<>>],
                      REG_CTRL, 7),
             REG_STATUS, 7)

RtcsOn == {RtcNew(RegsWith(0))}

\* The tuples handed to datetime(dt): the ends of every field's range, a
\* value across a decimal carry, and a year of the next century
Years == {2000, 2099, 2100}
Months == {1, 12}
Mdays == {10, 31}
Wdays == {1, 7}
Hours == {0, 12, 23}
Minutes == {9, 59}
Secs == {0, 59}
Dts ==
    {<<yr, mo, md, wd, hr, mi, se, sub>> :
        yr \in Years, mo \in Months, md \in Mdays, wd \in Wdays,
        hr \in Hours, mi \in Minutes, se \in Secs, sub \in {0}}

\* ------------------------------------------------------------------------
\* Writer.draw_char, writer.py:86-112.  The loops visit the cells in the
\* order n = row * width + col; a read past the end of the font raises
\* IndexError and the cells before it have been drawn.
CellRow(n, width) == n \div width
CellCol(n, width) == n % width

\* index of the bit the loop body looks at, writer.py:101 and :108
CellIndex(n, width, height, landscape) ==
    IF landscape THEN CellRow(n, width) * width + CellCol(n, width)
    ELSE CellCol(n, width) * height + CellRow(n, width)

\* the mask of writer.py:101 and :108, as a bit number
CellMask(n, width, landscape) ==
    IF landscape THEN CellCol(n, width) % 8 ELSE CellRow(n, width) % 8

\* the pixel of writer.py:102 and :109
CellX(n, width, px, landscape) ==
    IF landscape THEN px + CellRow(n, width) ELSE px + CellCol(n, width)
CellY(n, width, py, landscape) ==
    IF landscape THEN py + width - CellCol(n, width) - 1
    ELSE py + CellRow(n, width)

CellByte(f, data, n, width, height, landscape) ==
    PyGet(f, data + CellIndex(n, width, height, landscape) \div 8)

CellOp(f, data, n, width, height, px, py, color, bgcolor, landscape) ==
    IF Bit(CellByte(f, data, n, width, height, landscape),
           CellMask(n, width, landscape)) = 1
    THEN PixelOp(CellX(n, width, px, landscape),
                 CellY(n, width, py, landscape), color)
    ELSE IF bgcolor # None
    THEN PixelOp(CellX(n, width, px, landscape),
                 CellY(n, width, py, landscape), bgcolor)
    ELSE NoOp

\* What draw_char hands back: did it raise, did it bail out on an empty
\* definition (:92-93), the width it read, the calls it made on the device
Drawn(raised, empty, width, ops) ==
    [raised |-> raised, empty |-> empty, width |-> width, ops |-> ops]

\* DrawReturn taking the exit of writer.py:93 always
DrawReturnTrue(d) == PyTrue

\* The value draw_char returns, writer.py:93 and :112
DrawReturn(d) == IF d.empty THEN PyTrue ELSE d.width

\* The first cell whose read of the font raises; cells when none does
FirstBad(f, data, cells, width, height, landscape) ==
    LET bad == {n \in 0 .. cells - 1 :
                  CellByte(f, data, n, width, height, landscape) = IndexError}
    IN  IF bad = {} THEN cells
        ELSE CHOOSE n \in bad : \A m \in bad : n <= m

\* The loops of writer.py:97-111 over the cells 0 .. done - 1
DrawCells(f, data, done, width, height, px, py, color, bgcolor, landscape) ==
    Drawn(done < height * width, FALSE, width,
          SelectSeq([i \in 1 .. done |->
                        CellOp(f, data, i - 1, width, height, px, py,
                               color, bgcolor, landscape)],
                    IsWrite))

\* draw_char from writer.py:94 on: the width is the byte at offset, the
\* data follow it
DrawGlyph(f, offset, width, height, px, py, color, bgcolor, landscape) ==
    IF width = IndexError THEN Drawn(TRUE, FALSE, width, <<>>)
    ELSE DrawCells(f, offset + 1,
                   FirstBad(f, offset + 1, height * width, width, height,
                            landscape),
                   width, height, px, py, color, bgcolor, landscape)

\* draw_char from writer.py:92 on, offset being the address of the char
DrawAt(f, offset, px, py, color, bgcolor, landscape) ==
    IF offset = IndexError THEN Drawn(TRUE, FALSE, IndexError, <<>>)
    ELSE IF offset = 0 THEN Drawn(FALSE, TRUE, 0, <<>>)
    ELSE DrawGlyph(f, offset, PyGet(f, offset), PyGet(f, HEIGHT),
                   px, py, color, bgcolor, landscape)

\* Writer.draw_char, writer.py:86-112
DrawChar(char_code, px, py, f, color, bgcolor, landscape) ==
    DrawAt(f, GetCharAddr(f, char_code), px, py, color, bgcolor, landscape)

\* ------------------------------------------------------------------------
\* Fonts.  Bytes 0..7 are the header, byte 2 holds the position of the
\* index-mode byte, the directory follows it.
Hdr1(h, w) == <<0, 0, 8, h, w, 66, 65, 67, ONE_BYTE_INDEX, 0>>
Hdr2(h, w) == <<0, 0, 8, h, w, 67, 65, 67, TWO_BYTE_INDEX, 0, 2>>

FontA == Hdr1(2, 2) \o <<2, 2, 6>>
FontB == Hdr1(3, 3) \o <<3, 2, 1>>
FontC == Hdr2(2, 1) \o <<1, 1, 1>>
FontZ == Hdr1(2, 2) \o <<0, 2, 6>>
FontT == Hdr1(8, 2) \o <<2, 2, 255>>
FontE == <<0, 0, 8, 2, 2, 66, 65, 67, TWO_BYTE_INDEX, 0, 2, 2, 2, 6>>
Font8 == Hdr1(8, 6) \o <<6, 6, 126, 9, 9, 9, 126, 0>>
FontN == Hdr1(2, 2) \o <<2, 0, 6>>
FontW == Hdr1(2, 3) \o <<1, 3, 45>>

\* A font of height 1 for the codes 32 .. 48, missing code 33, one-byte
\* index: the directory (17 entries), then the glyphs of ' ' (width 0),
\* '0' (width 6) and '!' (width 5), each with its width byte twice
FontS ==
    <<0, 0, 8, 1, 6, 33, 32, 49, ONE_BYTE_INDEX>>
        \o <<17, 22>> \o [i \in 1 .. 14 |-> 22] \o <<19>>
        \o <<0, 0, 6, 6, 63, 5, 5, 31>>

\* The font and surface a Writer is constructed on: a small surface, and
\* the 240x8 surface of the wrap scenario
Configs ==
    {[font |-> f, w |-> 4, h |-> 4] :
        f \in {FontA, FontB, FontC, FontZ, FontT, FontE}}

\* Fonts whose two width bytes differ either way, or agree, on the small
\* surface
EdgeConfigs ==
    {[font |-> f, w |-> 4, h |-> 4] : f \in {FontA, FontB, FontN, FontW}}
WideConfigs == {[font |-> Font8, w |-> 240, h |-> 8]}

\* Positions the application hands to set_textpos (None: the default)
Xs(w) == {0, w - 2, None}
Ys(h) == {0 - 3, 0, h - 2, h, None}

\* Strings of ' ', '0' and 'A' handed to stringlen
MeasuredStrings == SeqsUpTo({32, 48, 65}, MaxLen)

\* Strings the application measures with stringlen between its prints
Measures == {<<>>, <<32>>, <<65, 66>>}

\* Coordinates handed to ILI9341.pixel: around the edges of the display
PixelCoords == {0 - 1, 0, 1, 239, 240, 319, 320}

\* Corners and sizes handed to fill_rectangle, hline and vline: outside
\* the display on either side, on its edges, and inside it
RectStarts == {0 - 1, 100, 319}
RectLens == {0, 140, 141, 400}
BusCoords == {0 - 1, 0, 239, 240, 320}

\* Letters _get_char_addr is asked about
Letters == Chars \cup {0, 48, 63, 64, 67, 68, 127}

\* ------------------------------------------------------------------------
\* State
VARIABLES
    font,        \* Writer.font, writer.py:121
    devW,        \* device.width, ili9341.py:96
    devH,        \* device.height, ili9341.py:97
    pins,        \* the levels of the display's cs and dc pins,
                 \* ili9341.py:99-100
    rtc,         \* the DS3231: its registers, the driver's buf7 and buf1,
                 \* ds3231.py:31-32, and what the last datetime call was
                 \* given and returned
    x,           \* Writer.x, writer.py:128
    y,           \* Writer.y, writer.py:129
    text_color,  \* Writer.text_color, writer.py:123
    bgcolor,     \* Writer.bgcolor, writer.py:125 (None: transparent)
    landscape,   \* Writer.landscape, writer.py:132
    map_space,   \* Writer.map_space, writer.py:145
    clip,        \* Writer._clip of the instance, writer.py:137
    cls,         \* the attributes set_clip puts on the class Writer,
                 \* writer.py:250-256 (set: set_clip has been called)
    first,       \* a finished printstring kept for comparison: how it
                 \* started, the calls it made, the pen it left
    pending,     \* the characters printstring has still to print
    ev           \* what the last call did: its inputs, the pen it found,
                 \* the calls it made on the device; str, sx, sy and n
                 \* are the string of the printstring under way, the
                 \* pen it started with, the characters taken so far,
                 \* run the calls it has made on the device

vars == <<font, devW, devH, pins, rtc, x, y, text_color, bgcolor, landscape,
          map_space, clip, cls, first, pending, ev>>

\* Writer.height, writer.py:141
FontHeight == PyGet(font, HEIGHT)

Ev0(op) ==
    [op |-> op, char |-> 0, x0 |-> 0, y0 |-> 0, cw |-> 0,
     wrapped |-> FALSE, cleared |-> FALSE, drawn |-> FALSE,
     dx |-> 0, dy |-> 0, dwidth |-> 0, raised |-> FALSE, ops |-> <<>>,
     addr |-> 0, sub |-> FALSE, idx |-> 0,
     str |-> <<>>, sx |-> 0, sy |-> 0, n |-> 0,
     dret |-> 0, diag |-> <<>>, len |-> 0, bus |-> <<>>, run |-> <<>>,
     color |-> 0, w |-> 0, h |-> 0, wire |-> <<>>]

\* The class Writer before set_clip has been called, and no printstring
\* kept
NoClassAttrs ==
    [set |-> FALSE, clip |-> FALSE, ha |-> FALSE, va |-> FALSE,
     vba |-> FALSE]
NoRun == [set |-> FALSE, key |-> <<>>, run |-> <<>>, pen |-> <<0, 0>>,
          raised |-> FALSE]

\* Writer.__init__, writer.py:118-151, on a device and a font of cfgs
InitOn(cfgs) ==
    /\ \E cfg \in cfgs :
          /\ font = cfg.font
          /\ devW = cfg.w
          /\ devH = cfg.h
    /\ pins = PinsOn
    /\ \E r \in RtcsOn : rtc = r
    /\ \E cols \in {<<1, 0>>, <<WHITE, None>>} :
          /\ text_color = cols[1]
          /\ bgcolor = cols[2]
    /\ x = 0
    /\ y = 0
    /\ landscape = FALSE
    /\ map_space = TRUE
    /\ clip = TRUE
    /\ cls = NoClassAttrs
    /\ first = NoRun
    /\ pending = <<>>
    /\ ev = Ev0("init")

Init == InitOn(Configs)

\* _get_char_addr(font, letter) called on the Writer's font
GetCharAddrCall(letter) ==
    /\ pending = <<>>
    /\ ev' = [Ev0("get_char_addr") EXCEPT
                 !.char = letter,
                 !.addr = GetCharAddr(font, letter),
                 !.sub = IsMissing(font, letter),
                 !.idx = DirIndex(font, letter)]
    /\ UNCHANGED <<rtc, pins, font, devW, devH,
                   x, y, text_color, bgcolor, landscape,
                   map_space, clip, cls, first, pending>>

\* ILI9341.pixel(px, py, c), ili9341.py:208-212
PixelCall(px, py, c) ==
    /\ pending = <<>>
    /\ ev' = [Ev0("pixel") EXCEPT
                 !.x0 = px, !.y0 = py, !.color = c,
                 !.bus = BusPixel(devW, devH, px, py, c),
                 !.wire = WirePixel(devW, devH, px, py, c)]
    /\ pins' = PinsAfter(pins, WirePixel(devW, devH, px, py, c))
    /\ UNCHANGED <<rtc, font, devW, devH, x, y, text_color, bgcolor,
                   landscape, map_space, clip, cls, first, pending>>

\* A fill_rectangle(px, py, rw, rh, c) made under the name op, which put
\* the events wire on the pins
FillRectangleWire(op, px, py, rw, rh, c, wire) ==
    /\ pending = <<>>
    /\ ev' = [Ev0(op) EXCEPT
                 !.x0 = px, !.y0 = py, !.w = rw, !.h = rh, !.color = c,
                 !.wire = wire]
    /\ pins' = PinsAfter(pins, wire)
    /\ UNCHANGED <<rtc, font, devW, devH, x, y, text_color, bgcolor,
                   landscape, map_space, clip, cls, first, pending>>

FillRectangleAs(op, px, py, rw, rh, c) ==
    FillRectangleWire(op, px, py, rw, rh, c,
                      WireFillRectangle(devW, devH, px, py, rw, rh, c))

\* ILI9341.fill_rectangle(px, py, rw, rh, c), ili9341.py:214-239
FillRectangleCall(px, py, rw, rh, c) ==
    FillRectangleAs("fill_rectangle", px, py, rw, rh, c)

\* ILI9341.fill(c), ili9341.py:242-243
FillCall(c) == FillRectangleAs("fill", 0, 0, devW, devH, c)

\* ILI9341.hline(px, py, rw, c), ili9341.py:245-246
HlineCall(px, py, rw, c) == FillRectangleAs("hline", px, py, rw, 1, c)

\* ILI9341.vline(px, py, rh, c), ili9341.py:248-249
VlineCall(px, py, rh, c) == FillRectangleAs("vline", px, py, 1, rh, c)

\* DS3231(i2c), ds3231.py:29-37, on a clock whose registers hold regs
NewDS3231(regs) ==
    /\ pending = <<>>
    /\ rtc' = RtcNew(regs)
    /\ ev' = Ev0("DS3231")
    /\ UNCHANGED <<pins, font, devW, devH, x, y, text_color, bgcolor,
                   landscape, map_space, clip, cls, first, pending>>

\* DS3231.datetime(dt), ds3231.py:88-109: the set branch
DatetimeSet(dt) ==
    /\ pending = <<>>
    /\ LET buf == SetBytes(dt[1], dt[2], dt[3], dt[4], dt[5], dt[6], dt[7])
       IN  rtc' = ClearBit([rtc EXCEPT
                               !.buf7 = buf,
                               !.regs = WriteMem(rtc.regs, REG_SECS, buf),
                               !.op = "set", !.dt = dt, !.ret = <<>>],
                           REG_STATUS, 7)
    /\ ev' = Ev0("datetime")
    /\ UNCHANGED <<pins, font, devW, devH, x, y, text_color, bgcolor,
                   landscape, map_space, clip, cls, first, pending>>

\* DS3231.datetime(), ds3231.py:65-86: the get branch
DatetimeGet ==
    /\ pending = <<>>
    /\ LET buf == ReadMem(rtc.regs, REG_SECS, 7)
       IN  rtc' = [rtc EXCEPT !.buf7 = buf, !.op = "get",
                              !.ret = GetTuple(buf)]
    /\ ev' = Ev0("datetime")
    /\ UNCHANGED <<pins, font, devW, devH, x, y, text_color, bgcolor,
                   landscape, map_space, clip, cls, first, pending>>

\* Writer.set_textpos(device, x, y), writer.py:156-168
SetTextpos(nx, ny) ==
    /\ pending = <<>>
    /\ x' = IF nx = None THEN devW \div 2 ELSE nx
    /\ y' = IF ny = None THEN devH \div 2 ELSE ny
    /\ ev' = Ev0("set_textpos")
    /\ UNCHANGED <<rtc, pins, font, devW, devH,
                   text_color, bgcolor, landscape,
                   map_space, clip, cls, first, pending>>

\* wri.landscape = b, the attribute of writer.py:132
SetLandscape(b) ==
    /\ pending = <<>>
    /\ landscape' = b
    /\ ev' = Ev0("set_landscape")
    /\ UNCHANGED <<rtc, pins, font, devW, devH,
                   x, y, text_color, bgcolor, map_space,
                   clip, cls, first, pending>>

\* wri.map_space = b, the attribute of writer.py:145
SetMapSpace(b) ==
    /\ pending = <<>>
    /\ map_space' = b
    /\ ev' = Ev0("set_map_space")
    /\ UNCHANGED <<rtc, pins, font, devW, devH,
                   x, y, text_color, bgcolor, landscape,
                   clip, cls, first, pending>>

\* Writer.set_clip(horiz, vert, verbose), writer.py:248-257: a class
\* method, it sets attributes of the class
SetClip(horiz, vert, verbose) ==
    /\ pending = <<>>
    /\ cls' = [set |-> TRUE, clip |-> (horiz \/ vert), ha |-> horiz,
               va |-> vert,
               vba |-> IF verbose THEN VERBOSE ELSE NO_VERBOSE]
    /\ ev' = Ev0("set_clip")
    /\ UNCHANGED <<rtc, pins, font, devW, devH,
                   x, y, text_color, bgcolor, landscape,
                   map_space, clip, first, pending>>

\* Writer(device, font, verbose=verbose), writer.py:118-151: another Writer
\* is constructed on the device and the font and used from now on
NewWriter(verbose) ==
    /\ pending = <<>>
    /\ text_color' = 1
    /\ bgcolor' = 0
    /\ x' = 0
    /\ y' = 0
    /\ landscape' = FALSE
    /\ map_space' = TRUE
    /\ clip' = verbose
    /\ ev' = Ev0("init")
    /\ UNCHANGED <<rtc, pins, font, devW, devH, cls, first, pending>>

\* What stringlen(s) did when it gave l (IndexError: it raised)
StringlenEv(s, l) ==
    [Ev0("stringlen") EXCEPT !.str = s, !.x0 = x, !.y0 = y, !.len = l,
                             !.raised = (l = IndexError)]

\* Stringlen moving the pen by the length
StringlenMoving(s) ==
    /\ pending = <<>>
    /\ ev' = StringlenEv(s, StringLen(font, map_space, s))
    /\ x' = x + Len(s)
    /\ UNCHANGED <<rtc, pins, font, devW, devH,
                   y, text_color, bgcolor, landscape,
                   map_space, clip, cls, first, pending>>

\* Writer.stringlen(s), writer.py:171-175
Stringlen(s) ==
    /\ pending = <<>>
    /\ ev' = StringlenEv(s, StringLen(font, map_space, s))
    /\ UNCHANGED <<rtc, pins, font, devW, devH,
                   x, y, text_color, bgcolor, landscape,
                   map_space, clip, cls, first, pending>>

\* Writer.printstring(s), writer.py:209-211: the loop starts
Printstring(s) ==
    /\ pending = <<>>
    /\ pending' = s
    /\ ev' = [Ev0("printstring") EXCEPT !.str = s, !.sx = x, !.sy = y]
    /\ UNCHANGED <<rtc, pins, font, devW, devH,
                   x, y, text_color, bgcolor, landscape,
                   map_space, clip, cls, first>>

\* ClearColor without the test for None
ClearColorRaw(bg) == bg

\* The colour Writer.clear_screen fills with, writer.py:203
ClearColor(bg) == IF bg # None THEN bg ELSE 0

\* Writer._printchar(char_code), writer.py:215-244, as a record of what it
\* does for the character c with the pen at (px, py):
\*   ev.cw       the width _char_width gave (:218)
\*   ev.wrapped  the test of :223 held;  ev.cleared: the test of :227 too
\*   ev.drawn    draw_char was called (:242), at (dx, dy), and read dwidth
\*   ev.raised   an IndexError left the method
\*   ev.ops      the calls made on the device
\*   nx, ny      the pen when the method is left
PrintEv(c, px, py, cw) ==
    [Ev0("printchar") EXCEPT !.char = c, !.x0 = px, !.y0 = py, !.cw = cw,
                             !.str = ev.str, !.sx = ev.sx, !.sy = ev.sy,
                             !.n = ev.n + 1]

\* PrintDrawn with an advance that depends on what was printed before
PrintDrawnDrift(e, cw, x2, y2, d) ==
    [ev |-> [e EXCEPT !.drawn = TRUE, !.dx = x2, !.dy = y2,
                      !.dwidth = d.width, !.dret = DrawReturn(d),
                      !.raised = d.raised,
                      !.ops = e.ops \o d.ops],
     nx |-> IF d.raised THEN x2
            ELSE x2 + cw + (IF first.set THEN 1 ELSE 0),
     ny |-> y2]

\* writer.py:242-244: draw_char at (x2, y2) gave d; the pen advances by cw
PrintDrawn(e, cw, x2, y2, d) ==
    [ev |-> [e EXCEPT !.drawn = TRUE, !.dx = x2, !.dy = y2,
                      !.dwidth = d.width, !.dret = DrawReturn(d),
                      !.raised = d.raised,
                      !.ops = e.ops \o d.ops],
     nx |-> IF d.raised THEN x2 ELSE x2 + cw,
     ny |-> y2]

\* What print() shows for a clipped character, writer.py:231-232 and
\* :237-238
Diagnostic(msg) == IF clip /\ VERBOSE THEN <<msg>> ELSE <<>>

\* PrintAt without the test of writer.py:230
PrintAtNoTop(e, c, cw, x2, y2) ==
    IF y2 >= devH
    THEN [ev |-> [e EXCEPT !.diag = Diagnostic("Font off bottom of screen")],
          nx |-> x2, ny |-> y2]
    ELSE PrintDrawn(e, cw, x2, y2,
                    DrawChar(c, x2, y2, font, text_color, bgcolor, landscape))

\* writer.py:229-244: the two clip tests, then the drawing
PrintAt(e, c, cw, x2, y2) ==
    IF y2 + FontHeight < 0
    THEN [ev |-> [e EXCEPT !.diag = Diagnostic("Font too tall for screen")],
          nx |-> x2, ny |-> y2]
    ELSE IF y2 >= devH
    THEN [ev |-> [e EXCEPT !.diag = Diagnostic("Font off bottom of screen")],
          nx |-> x2, ny |-> y2]
    ELSE PrintDrawn(e, cw, x2, y2,
                    DrawChar(c, x2, y2, font, text_color, bgcolor, landscape))

\* PrintWrap with a wrap that leaves the pen's x where it was
PrintWrapKeepX(e, c, cw, px, py, wrapped, cleared) ==
    PrintAt([e EXCEPT !.wrapped = wrapped, !.cleared = cleared,
                      !.ops = IF cleared
                              THEN <<FillOp(ClearColor(bgcolor))>>
                              ELSE <<>>],
            c, cw,
            IF cleared THEN 0 ELSE px,
            IF cleared THEN 0 ELSE IF wrapped THEN py + FontHeight ELSE py)

\* writer.py:223-228: the wrap and the clear of the screen
PrintWrap(e, c, cw, px, py, wrapped, cleared) ==
    PrintAt([e EXCEPT !.wrapped = wrapped, !.cleared = cleared,
                      !.ops = IF cleared
                              THEN <<FillOp(ClearColor(bgcolor))>>
                              ELSE <<>>],
            c, cw,
            IF wrapped THEN 0 ELSE px,
            IF cleared THEN 0 ELSE IF wrapped THEN py + FontHeight ELSE py)

\* PrintWidth clearing the screen only when the pen is past the last line
PrintWidthGt(e, c, cw, px, py) ==
    IF cw = IndexError
    THEN [ev |-> [e EXCEPT !.raised = TRUE], nx |-> px, ny |-> py]
    ELSE IF cw = 0
    THEN [ev |-> e, nx |-> px, ny |-> py]
    ELSE PrintWrap(e, c, cw, px, py,
                   px + cw > devW,
                   px + cw > devW /\ py + FontHeight > devH)

\* PrintWidth without the early return on a width of 0
PrintWidthNoZero(e, c, cw, px, py) ==
    IF cw = IndexError
    THEN [ev |-> [e EXCEPT !.raised = TRUE], nx |-> px, ny |-> py]
    ELSE PrintWrap(e, c, cw, px, py,
                   px + cw > devW,
                   px + cw > devW /\ py + FontHeight >= devH)

\* PrintWidth clearing the screen whenever the pen's line is past the
\* last one, wrapped or not
PrintWidthClearNoWrap(e, c, cw, px, py) ==
    IF cw = IndexError
    THEN [ev |-> [e EXCEPT !.raised = TRUE], nx |-> px, ny |-> py]
    ELSE IF cw = 0
    THEN [ev |-> e, nx |-> px, ny |-> py]
    ELSE PrintWrap(e, c, cw, px, py,
                   px + cw > devW,
                   py + FontHeight >= devH)

\* writer.py:218-228: the width decides
PrintWidth(e, c, cw, px, py) ==
    IF cw = IndexError
    THEN [ev |-> [e EXCEPT !.raised = TRUE], nx |-> px, ny |-> py]
    ELSE IF cw = 0
    THEN [ev |-> e, nx |-> px, ny |-> py]
    ELSE PrintWrap(e, c, cw, px, py,
                   px + cw > devW,
                   px + cw > devW /\ py + FontHeight >= devH)

PrintcharWith(c, px, py, cw) == PrintWidth(PrintEv(c, px, py, cw), c, cw, px, py)

PrintcharOf(c, px, py) ==
    PrintcharWith(c, px, py, CharWidth(font, map_space, c))

\* One turn of the loop of printstring, writer.py:210-211: _printchar on
\* the next character; an exception ends the loop.
Printchar ==
    /\ pending # <<>>
    /\ LET r == PrintcharOf(Head(pending), x, y)
       IN  /\ x' = r.nx
           /\ y' = r.ny
           /\ ev' = [r.ev EXCEPT !.run = ev.run \o r.ev.ops]
           /\ pending' = IF r.ev.raised THEN <<>> ELSE Tail(pending)
           /\ pins' = PinsAfterOps(pins, devW, devH, r.ev.ops)
    /\ UNCHANGED <<rtc, font, devW, devH,
                   text_color, bgcolor, landscape,
                   map_space, clip, cls, first>>

\* What a printstring started from: the Writer's settings, the pen and
\* the string
RunKey ==
    <<font, devW, devH, text_color, bgcolor, landscape, map_space,
      ev.sx, ev.sy, ev.str>>

\* The application clears the surface after a printstring (display.fill,
\* main.py:206); the printstring that has just ended is kept, once, to
\* compare a later one with it
ClearAndKeep ==
    /\ pending = <<>>
    /\ ev.op = "printchar"
    /\ ~first.set
    /\ first' = [set |-> TRUE, key |-> RunKey, run |-> ev.run,
                 pen |-> <<x, y>>, raised |-> ev.raised]
    /\ ev' = [Ev0("fill") EXCEPT !.color = BLACK,
                                 !.wire = WireFill(devW, devH, BLACK)]
    /\ pins' = PinsAfter(pins, WireFill(devW, devH, BLACK))
    /\ UNCHANGED <<rtc, font, devW, devH,
                   x, y, text_color, bgcolor, landscape,
                   map_space, clip, cls, pending>>

Next ==
    \/ \E nx \in Xs(devW), ny \in Ys(devH) : SetTextpos(nx, ny)
    \/ \E b \in BOOLEAN : SetLandscape(b)
    \/ \E b \in BOOLEAN : SetMapSpace(b)
    \/ \E s \in Strings : Printstring(s)
    \/ \E s \in Measures : Stringlen(s)
    \/ Printchar

Spec == Init /\ [][Next]_vars

\* The lookup alone, on every font and letter
InitAddr == InitOn(Configs \cup WideConfigs)
NextAddr == \E letter \in Letters : GetCharAddrCall(letter)
SpecAddr == InitAddr /\ [][NextAddr]_vars

\* The 240x8 surface with the 6x8 font: the pen set on the top line, "A",
\* "B" and "AB" printed
InitWide == InitOn(WideConfigs)
NextWide ==
    \/ \E nx \in {0, 238} : SetTextpos(nx, 0)
    \/ \E s \in {<<65>>, <<66>>, <<65, 66>>} : Printstring(s)
    \/ Printchar
SpecWide == InitWide /\ [][NextWide]_vars

\* Printing with the pen set anywhere from far above the surface to
\* below it
InitEdge == InitOn(EdgeConfigs)
NextEdge ==
    \/ \E nx \in Xs(devW), ny \in Ys(devH) \cup {0 - 7} : SetTextpos(nx, ny)
    \/ \E b \in BOOLEAN : SetLandscape(b)
    \/ \E s \in Strings : Printstring(s)
    \/ Printchar
SpecEdge == InitEdge /\ [][NextEdge]_vars

\* A printstring, the surface cleared, the pen put back, and the same or
\* another printstring again
InitTwice ==
    InitOn({[font |-> f, w |-> 4, h |-> 4] : f \in {FontA, FontB}})
NextTwice ==
    \/ \E nx \in {0, 2}, ny \in {0, 2} : SetTextpos(nx, ny)
    \/ \E b \in BOOLEAN : SetLandscape(b)
    \/ \E s \in {<<65>>, <<65, 66>>} : Printstring(s)
    \/ Printchar
    \/ ClearAndKeep
SpecTwice == InitTwice /\ [][NextTwice]_vars

\* ILI9341.pixel on the display in its two sizes (set_rotation,
\* ili9341.py:177-195)
InitPixel ==
    InitOn({[font |-> Font8, w |-> 240, h |-> 320],
            [font |-> Font8, w |-> 320, h |-> 240]})
NextPixel ==
    \E px \in PixelCoords, py \in PixelCoords, c \in {BLACK, RED, WHITE} :
        PixelCall(px, py, c)
SpecPixel == InitPixel /\ [][NextPixel]_vars

\* Every drawing call of ILI9341 on the display in its two sizes
NextBus ==
    \/ \E px \in BusCoords, py \in BusCoords : PixelCall(px, py, RED)
    \/ \E px \in RectStarts, py \in RectStarts,
          rw \in RectLens, rh \in RectLens :
          FillRectangleCall(px, py, rw, rh, RED)
    \/ \E c \in {BLACK, RED, WHITE} : FillCall(c)
    \/ \E px \in RectStarts, py \in RectStarts, rw \in RectLens :
          HlineCall(px, py, rw, WHITE)
    \/ \E px \in RectStarts, py \in RectStarts, rh \in RectLens :
          VlineCall(px, py, rh, WHITE)
InitBus == InitPixel /\ bgcolor = None
SpecBus == InitBus /\ [][NextBus]_vars

\* The clock driver: constructed on a clock, set and read in any order
InitRtc ==
    InitOn({[font |-> Font8, w |-> 240, h |-> 320]}) /\ bgcolor = None
NextRtc ==
    \/ \E regs \in RegImages : NewDS3231(regs)
    \/ \E dt \in Dts : DatetimeSet(dt)
    \/ DatetimeGet
SpecRtc == InitRtc /\ [][NextRtc]_vars

\* stringlen alone, on the font with a space, a '0' and a missing glyph
\* of different widths and on fonts of both index modes, one of which
\* makes _char_width raise
InitLen ==
    InitOn({[font |-> FontS, w |-> 240, h |-> 8]}
           \cup {[font |-> f, w |-> 4, h |-> 4] : f \in {FontA, FontC, FontE}})
NextLen ==
    \/ \E b \in BOOLEAN : SetMapSpace(b)
    \/ \E b \in BOOLEAN : SetLandscape(b)
    \/ \E nx \in Xs(devW), ny \in {0, None} : SetTextpos(nx, ny)
    \/ \E s \in MeasuredStrings : Stringlen(s)
SpecLen == InitLen /\ [][NextLen]_vars

\* The clip flags: set_clip, Writers constructed before and after it, and
\* characters printed on and off the surface
InitClip == InitOn({[font |-> FontA, w |-> 4, h |-> 4]})
NextClip ==
    \/ \E horiz \in BOOLEAN, vert \in BOOLEAN, verbose \in BOOLEAN :
          SetClip(horiz, vert, verbose)
    \/ \E verbose \in BOOLEAN : NewWriter(verbose)
    \/ \E ny \in Ys(devH) : SetTextpos(0, ny)
    \/ Printstring(<<65>>)
    \/ Printchar
SpecClip == InitClip /\ [][NextClip]_vars

\* ------------------------------------------------------------------------
\* Properties

Range(sq) == {sq[i] : i \in 1 .. Len(sq)}

\* the last call was a lookup / a _printchar
Looked == ev.op = "get_char_addr"
Printed == ev.op = "printchar"

\* _printchar called draw_char and draw_char returned
DrewAll == Printed /\ ev.drawn /\ ~ev.raised

\* the calls draw_char made, without the fill of a clear_screen before it
DrawOps == IF ev.cleared THEN Tail(ev.ops) ELSE ev.ops

\* bit number k of the packed bitmap of the glyph draw_char drew: bit
\* k mod 8 of byte k div 8 of the bytes after the width byte
GlyphBit(k) ==
    Bit(PyGet(font, GetCharAddr(font, ev.char) + 1 + k \div 8), k % 8)

\* C1: every code c with first_char <= c < last_char is looked up without
\* the missing-glyph substitution, at the directory index c - first_char.
\* The code reads first_char at MISSING + 2 = 7, which is LAST_CHAR: there
\* the range is empty.  first_char is taken here from the header field the
\* source names for it, FIRST_CHAR (writer.py:47, and the comments of
\* :59-68).
C1_InRangeNotSubstituted ==
    (Looked /\ PyGet(font, FIRST_CHAR) <= ev.char
            /\ ev.char < PyGet(font, LAST_CHAR))
    => (~ev.sub /\ ev.idx = ev.char - PyGet(font, FIRST_CHAR))

\* C2: every code c outside [first_char, last_char), first_char read at
\* MISSING + 2 and last_char at LAST_CHAR, resolves to the address the
\* font's missing code resolves to, in both index modes.
C2_OutOfRangeIsMissing ==
    (Looked /\ ~(PyGet(font, MISSING + 2) <= ev.char
                 /\ ev.char < PyGet(font, LAST_CHAR)))
    => ev.addr = GetCharAddr(font, PyGet(font, MISSING))

\* a code other than the missing code was looked up in a two-byte font and
\* an address came back
C2_Witness ==
    /\ Looked
    /\ PyGet(font, PyGet(font, MAX_CHARS)) = TWO_BYTE_INDEX
    /\ ev.char # PyGet(font, MISSING)
    /\ ev.addr # IndexError
    /\ PyGet(font, ev.addr) # IndexError

\* C3: after _printchar has drawn a character the pen has advanced by the
\* width draw_char read and returned.
C3_PenAdvancesByDrawnWidth ==
    DrewAll => (x = ev.dx + ev.dwidth /\ y = ev.dy)

\* C4: normal orientation: pixel (x + col, y + row) gets the foreground
\* exactly when bit col * h + row of the packed bitmap is 1, else the
\* background when there is one, else no write.
C4_NormalBits ==
    (DrewAll /\ ~landscape) =>
        \A row \in 0 .. FontHeight - 1, col \in 0 .. ev.dwidth - 1 :
            IF GlyphBit(col * FontHeight + row) = 1
            THEN PixelOp(ev.dx + col, ev.dy + row, text_color)
                     \in Range(DrawOps)
            ELSE IF bgcolor # None
            THEN PixelOp(ev.dx + col, ev.dy + row, bgcolor)
                     \in Range(DrawOps)
            ELSE \A o \in Range(DrawOps) :
                     ~(o.x = ev.dx + col /\ o.y = ev.dy + row)

\* C5: landscape orientation: the cell (row, col) is bit row * w + col of
\* the packed bitmap and is written at (x + row, y + w - col - 1).
C5_LandscapeBits ==
    (DrewAll /\ landscape) =>
        \A row \in 0 .. FontHeight - 1, col \in 0 .. ev.dwidth - 1 :
            IF GlyphBit(row * ev.dwidth + col) = 1
            THEN PixelOp(ev.dx + row, ev.dy + ev.dwidth - col - 1, text_color)
                     \in Range(DrawOps)
            ELSE IF bgcolor # None
            THEN PixelOp(ev.dx + row, ev.dy + ev.dwidth - col - 1, bgcolor)
                     \in Range(DrawOps)
            ELSE \A o \in Range(DrawOps) :
                     ~(o.x = ev.dx + row /\ o.y = ev.dy + ev.dwidth - col - 1)

\* C6: wrap law: a character of non-zero width with pen_x + width >
\* surface.width, whose new line is still on the surface, finds the pen at
\* (0, old pen_y + font height) before it is drawn.
C6_WrapLaw ==
    (Printed /\ ev.cw > 0 /\ ev.x0 + ev.cw > devW
             /\ ev.y0 + FontHeight < devH)
    => /\ y = ev.y0 + FontHeight
       /\ IF ev.drawn
          THEN ev.dx = 0 /\ ev.dy = ev.y0 + FontHeight
          ELSE x = 0

\* a character wrapped to a line of the surface and was drawn there
C6_Witness ==
    /\ Printed /\ ev.cw > 0 /\ ev.x0 + ev.cw > devW
    /\ ev.y0 + FontHeight < devH
    /\ ev.drawn /\ ~ev.raised /\ ev.ops # <<>>

\* the display memory with every pixel of the surface of colour c
Memory(c) == [p \in (0 .. devW - 1) \X (0 .. devH - 1) |-> c]

\* C7: scroll-clear law: when the wrap leaves pen_y >= surface.height the
\* whole surface is filled with the background (0 when it is None), the
\* pen is put at (0, 0), and only then the character is drawn, at (0, 0).
C7_ScrollClear ==
    (Printed /\ ev.cw > 0 /\ ev.x0 + ev.cw > devW
             /\ ev.y0 + FontHeight >= devH)
    => /\ ev.ops # <<>>
       /\ Head(ev.ops) = FillOp(IF bgcolor = None THEN 0 ELSE bgcolor)
       /\ \A c0 \in {BLACK, RED} :
             ApplyOp(Memory(c0), devW, devH, Head(ev.ops))
                 = Memory(IF bgcolor = None THEN 0 ELSE bgcolor)
       /\ \A i \in 2 .. Len(ev.ops) : ev.ops[i].op = "pixel"
       /\ ev.drawn /\ ev.dx = 0 /\ ev.dy = 0
       /\ y = 0

\* a wrap past the last line with a transparent background, drawn
C7_Witness ==
    /\ Printed /\ ev.cw > 0 /\ ev.x0 + ev.cw > devW
    /\ ev.y0 + FontHeight >= devH
    /\ bgcolor = None /\ ev.drawn /\ ~ev.raised /\ Len(ev.ops) > 1

\* the printstring("AB") that started with the pen at (238, 0)
Scenario8 == Printed /\ ev.str = <<65, 66>> /\ ev.sx = 238 /\ ev.sy = 0

\* C8 as stated: on the 240x8 surface with the 6x8 font, printstring("AB")
\* from (238, 0) wraps B, which clears the screen, and B is drawn at (0, 0).
C8_BWrapsAndClears ==
    (Scenario8 /\ devW = 240 /\ devH = 8 /\ pending = <<>>)
    => /\ ev.char = 66 /\ ev.wrapped /\ ev.cleared
       /\ ev.drawn /\ ev.dx = 0 /\ ev.dy = 0

\* C8 amended: it is A that wraps to (0, 8) and clears the screen; A is
\* drawn at (0, 0), B without a wrap at (6, 0), and the pen ends at (12, 0).
C8_AWrapsAndClears ==
    (Scenario8 /\ devW = 240 /\ devH = 8 /\ FontHeight = 8)
    => IF pending = <<66>>
       THEN /\ ev.char = 65 /\ ev.cw = 6
            /\ ev.x0 + ev.cw > devW /\ ev.y0 + FontHeight >= devH
            /\ ev.ops # <<>> /\ Head(ev.ops) = FillOp(ClearColor(bgcolor))
            /\ ev.drawn /\ ev.dx = 0 /\ ev.dy = 0 /\ ev.dwidth = 6
            /\ x = 6 /\ y = 0
       ELSE /\ pending = <<>>
            /\ ev.char = 66 /\ ev.cw = 6
            /\ ev.x0 = 6 /\ ev.y0 = 0
            /\ \A o \in Range(ev.ops) : o.op = "pixel"
            /\ ev.drawn /\ ev.dx = 6 /\ ev.dy = 0 /\ ev.dwidth = 6
            /\ x = 12 /\ y = 0

\* the printstring("AB") from (238, 0) has printed its B
C8_Witness ==
    /\ Scenario8 /\ devW = 240 /\ devH = 8 /\ FontHeight = 8
    /\ pending = <<>> /\ ev.char = 66 /\ ev.drawn /\ ~ev.raised

\* C9: a character whose width resolves to 0 makes no call on the device
\* and leaves the pen where it was; printstring goes on with the
\* characters after it.
C9_ZeroWidthNoOp ==
    (Printed /\ CharWidth(font, map_space, ev.char) = 0)
    => /\ ev.ops = <<>> /\ ~ev.drawn /\ ~ev.raised
       /\ x = ev.x0 /\ y = ev.y0
       /\ pending = SubSeq(ev.str, ev.n + 1, Len(ev.str))
       /\ (pending # <<>> => ENABLED Printchar)

\* a zero-width character was taken with the pen off the origin and with
\* characters still to print
C9_Witness ==
    /\ Printed /\ CharWidth(font, map_space, ev.char) = 0
    /\ ev.x0 # 0 /\ ev.y0 # 0
    /\ pending # <<>>

\* the bit of the packed bitmap that belongs to the cell (row, col), and
\* the pixel the cell is drawn at
BitOfCell(row, col) ==
    IF landscape THEN GlyphBit(row * ev.dwidth + col)
    ELSE GlyphBit(col * FontHeight + row)
PixelOfCell(row, col) ==
    IF landscape THEN <<ev.dx + row, ev.dy + ev.dwidth - col - 1>>
    ELSE <<ev.dx + col, ev.dy + row>>
CellsWithBit(b) ==
    {PixelOfCell(rc[1], rc[2]) :
        rc \in {q \in (0 .. FontHeight - 1) \X (0 .. ev.dwidth - 1) :
                   BitOfCell(q[1], q[2]) = b}}

\* C10: with a transparent background draw_char writes only the pixels
\* whose glyph bit is set, each with the foreground; a pixel whose glyph
\* bit is unset keeps the colour it had (here: of a surface filled red).
C10_TransparentFrame ==
    (DrewAll /\ bgcolor = None)
    => /\ \A o \in Range(DrawOps) :
             /\ o.op = "pixel" /\ o.c = text_color
             /\ <<o.x, o.y>> \in CellsWithBit(1)
       /\ \A p \in CellsWithBit(0) \cap DOMAIN Memory(RED) :
             ApplyOps(Memory(RED), devW, devH, DrawOps)[p] = RED

Clipped == Printed /\ ev.cw > 0 /\ ~ev.drawn

\* the characters of the string that _printchar has not been given yet
Remaining == SubSeq(ev.str, ev.n + 1, Len(ev.str))

\* C12 as stated: draw_char is called only with pen_y + font height >= 0
\* and pen_y < surface.height; a clipped character leaves the pen where
\* it was before the character, and the rest of the string is processed.
C12_ClipKeepsPen ==
    /\ (Printed /\ ev.drawn) => (ev.dy + FontHeight >= 0 /\ ev.dy < devH)
    /\ Clipped => /\ x = ev.x0 /\ y = ev.y0
                  /\ pending = Remaining

\* C12 amended: a clipped character leaves the pen where the wrap step
\* put it: where it was when the character did not wrap, at
\* (0, old pen_y + font height) when it did; the pen is not advanced.
C12_ClipKeepsWrappedPen ==
    /\ (Printed /\ ev.drawn) => (ev.dy + FontHeight >= 0 /\ ev.dy < devH)
    /\ Clipped => /\ (y + FontHeight < 0 \/ y >= devH)
                  /\ ev.ops = <<>>
                  /\ IF ev.x0 + ev.cw > devW
                     THEN x = 0 /\ y = ev.y0 + FontHeight
                     ELSE x = ev.x0 /\ y = ev.y0
                  /\ pending = Remaining

\* a character wrapped, was clipped above the surface, and the string has
\* more characters
C12_Witness ==
    /\ Clipped /\ ev.x0 + ev.cw > devW /\ y + FontHeight < 0
    /\ pending # <<>>

\* C13: once set_clip(True, True, False) has been called, a clipped
\* character prints no diagnostic, on the Writer that existed and on one
\* constructed afterwards.
C13_SilentAfterSetClip ==
    (Clipped /\ cls.set /\ cls.ha /\ cls.va /\ cls.vba = NO_VERBOSE)
    => ev.diag = <<>>

\* the last call was a stringlen
Measured == ev.op = "stringlen"

\* the width byte of the glyph whose directory entry is at index
\* c - first_char, first_char being the header field FIRST_CHAR, in a
\* font with a one-byte index
GlyphWidth(f, c) ==
    PyGet(f, PyGet(f, MAX_CHARS) + 2
             + PyGet(f, PyGet(f, MAX_CHARS) + 1
                        + (IF IsMissingFirstChar(f, c)
                           THEN PyGet(f, MISSING) ELSE c)
                        - PyGet(f, FIRST_CHAR)))

\* C14: stringlen(" ") is the width of the glyph of '0' with map_space
\* enabled and the width of the space's own glyph with map_space disabled
\* (6 and 0 in a font whose '0' is 6 wide and whose space is 0 wide).
C14_SpaceWidth ==
    (Measured /\ ev.str = <<32>>)
    => ev.len = IF map_space THEN GlyphWidth(font, 48)
                ELSE GlyphWidth(font, 32)

\* C15: the Writer calls the device's fill only in a _printchar whose
\* character wrapped (pen_x + width > surface.width) to a pen_y >=
\* surface.height, once, before anything is drawn; set_textpos,
\* stringlen and every other _printchar make no such call.
C15_OnlyEraseTrigger ==
    /\ \A i \in 1 .. Len(ev.ops) :
          ev.ops[i].op = "fill"
          => /\ i = 1
             /\ Printed /\ ev.cw > 0
             /\ ev.x0 + ev.cw > devW
             /\ ev.y0 + FontHeight >= devH
    /\ ~Printed => ev.ops = <<>>

\* a _printchar filled the surface and then drew
C15_Witness ==
    /\ Printed /\ ev.ops # <<>> /\ Head(ev.ops).op = "fill"
    /\ Len(ev.ops) > 1 /\ ev.wrapped

\* C16: stringlen makes no call on the device and changes no field of the
\* Writer: pen, colours, orientation, map_space.
C16_StringlenFrame ==
    [][ev'.op = "stringlen"
         => /\ ev'.ops = <<>> /\ ev'.bus = <<>> /\ ev'.diag = <<>>
            /\ UNCHANGED <<x, y, text_color, bgcolor, landscape, map_space,
                           font, clip, pending>>]_vars

\* stringlen measured a string with the pen off the origin, in landscape
\* and with map_space disabled
C16_Witness ==
    /\ Measured /\ ev.len > 0 /\ Len(ev.str) = MaxLen
    /\ x # 0 /\ y # 0 /\ landscape /\ ~map_space

\* the sum of stringlen(ch) over the characters ch of s
RECURSIVE SumOfEach(_)
SumOfEach(s) ==
    IF s = <<>> THEN 0
    ELSE StringLen(font, map_space, <<Head(s)>>) + SumOfEach(Tail(s))

\* C17: stringlen(s) is the sum of stringlen(ch) over the characters of
\* s, and 0 for the empty string; it raises when one of them raises.
C17_StringlenAdditive ==
    Measured =>
       IF \E i \in 1 .. Len(ev.str) :
             StringLen(font, map_space, <<ev.str[i]>>) = IndexError
       THEN ev.len = IndexError
       ELSE /\ ev.len = SumOfEach(ev.str)
            /\ (ev.str = <<>> => ev.len = 0)

\* stringlen measured a string of two characters of width > 0
C17_Witness ==
    /\ Measured /\ Len(ev.str) = 2 /\ ev.len > 0
    /\ ev.len = StringLen(font, map_space, <<ev.str[1]>>)
                    + StringLen(font, map_space, <<ev.str[2]>>)

\* a printstring has ended that started as the kept one did
SameRunAgain ==
    /\ Printed /\ pending = <<>>
    /\ first.set /\ first.key = RunKey

Unpack16(hi, lo) == hi * 256 + lo

\* a data transfer of the two 16-bit values a and b
IsPair(t, a, b) ==
    /\ t.dc = 1 /\ Len(t.data) = 4
    /\ Unpack16(t.data[1], t.data[2]) = a
    /\ Unpack16(t.data[3], t.data[4]) = b

\* C19: pixel(x, y, color) inside the display sets the window to
\* (x, y, x, y) (column set x..x, page set y..y, memory write) and then
\* sends one 16-bit colour; outside the display it sends nothing.
C19_PixelBus ==
    ev.op = "pixel" =>
       IF 0 <= ev.x0 /\ ev.x0 < devW /\ 0 <= ev.y0 /\ ev.y0 < devH
       THEN /\ Len(ev.bus) = 6
            /\ ev.bus[1] = [dc |-> 0, data |-> <<CASET>>]
            /\ IsPair(ev.bus[2], ev.x0, ev.x0)
            /\ ev.bus[3] = [dc |-> 0, data |-> <<PASET>>]
            /\ IsPair(ev.bus[4], ev.y0, ev.y0)
            /\ ev.bus[5] = [dc |-> 0, data |-> <<RAMWR>>]
            /\ ev.bus[6].dc = 1 /\ Len(ev.bus[6].data) = 2
            /\ Unpack16(ev.bus[6].data[1], ev.bus[6].data[2]) = ev.color
       ELSE ev.bus = <<>>

\* the pixel (319, 239) of the 320x240 display was written in red
C19_Witness ==
    /\ ev.op = "pixel" /\ ev.x0 = 319 /\ ev.y0 = 239 /\ ev.color = RED
    /\ ev.bus # <<>>

\* no glyph of the font is wider than the surface, by the width byte
\* _char_width reads and by the one draw_char reads
WidthsFit ==
    \A c \in Chars :
        /\ CharWidth(font, map_space, c) <= devW
        /\ PyGet(font, GetCharAddr(font, c)) <= devW

\* C20: in normal orientation, with a font whose glyphs are no wider than
\* the surface and a printstring started at pen_x >= 0, every pixel call
\* is for a column 0 <= c < surface.width.
C20_RightEdge ==
    (Printed /\ ~landscape /\ ev.sx >= 0 /\ WidthsFit)
    => \A o \in Range(ev.ops) :
          o.op = "pixel" => (0 <= o.x /\ o.x < devW)

\* the calls of ILI9341 that go through fill_rectangle
FillOps == {"fill_rectangle", "fill", "hline", "vline"}

\* the window a call sent: the four 16-bit values of the data transfers
\* after the column-set and the page-set command
SentWindow ==
    [x0 |-> Unpack16(ev.wire[7].data[1], ev.wire[7].data[2]),
     x1 |-> Unpack16(ev.wire[7].data[3], ev.wire[7].data[4]),
     y0 |-> Unpack16(ev.wire[15].data[1], ev.wire[15].data[2]),
     y1 |-> Unpack16(ev.wire[15].data[3], ev.wire[15].data[4])]

\* the sum of n * Cardinality(of[n]) over the numbers n of ns
RECURSIVE SumByCount(_, _)
SumByCount(ns, of) ==
    IF ns = {} THEN 0
    ELSE LET n == CHOOSE m \in ns : TRUE
         IN  n * Cardinality(of[n]) + SumByCount(ns \ {n}, of)

\* the number of 16-bit values written from event i of the wire on: the
\* writes are counted by their size
SentValues(wire, i) ==
    LET writes == {j \in i .. Len(wire) : wire[j].pin = "spi"}
        Size(j) == (Len(wire[j].data) * wire[j].times) \div 2
        sizes == {Size(j) : j \in writes}
    IN  SumByCount(sizes, [n \in sizes |-> {j \in writes : Size(j) = n}])

\* C21: for fill_rectangle(x, y, w, h, color) with any integer arguments
\* the window sent satisfies 0 <= x0 <= x1 < width and
\* 0 <= y0 <= y1 < height, and the number of colour values written after
\* it is (x1-x0+1)*(y1-y0+1), in writes of at most 256 values; fill(color)
\* writes width*height values into the window (0, 0, width-1, height-1).
C21_FillWindow ==
    ev.op \in FillOps =>
       LET win == SentWindow
       IN  /\ Len(ev.wire) > 20
           /\ 0 <= win.x0 /\ win.x0 <= win.x1 /\ win.x1 < devW
           /\ 0 <= win.y0 /\ win.y0 <= win.y1 /\ win.y1 < devH
           /\ SentValues(ev.wire, 21)
                 = (win.x1 - win.x0 + 1) * (win.y1 - win.y0 + 1)
           /\ \A i \in 21 .. Len(ev.wire) :
                 ev.wire[i].pin = "spi" => ev.wire[i].times <= 256
           /\ ev.op = "fill" =>
                 /\ win = [x0 |-> 0, x1 |-> devW - 1,
                           y0 |-> 0, y1 |-> devH - 1]
                 /\ SentValues(ev.wire, 21) = devW * devH

\* fill_rectangle(100, 100, 141, 400, color) on the 240x320 display was
\* cut to the window (100, 100, 239, 319)
C21_Witness ==
    /\ ev.op = "fill_rectangle" /\ devW = 240
    /\ ev.x0 = 100 /\ ev.y0 = 100 /\ ev.w = 141 /\ ev.h = 400
    /\ SentWindow = [x0 |-> 100, x1 |-> 239, y0 |-> 100, y1 |-> 319]
    /\ SentValues(ev.wire, 21) = 140 * 220

\* events 4k-3 .. 4k of the wire are one transfer at the dc level dc of
\* n bytes, between cs low and cs high
IsTransfer(wire, k, dc, n) ==
    /\ wire[4 * k - 3] = CsValue(0)
    /\ wire[4 * k - 2] = DcValue(dc)
    /\ wire[4 * k - 1].pin = "spi"
    /\ Len(wire[4 * k - 1].data) = n /\ wire[4 * k - 1].times = 1
    /\ wire[4 * k] = CsValue(1)

\* transfer k of the wire is the command cmd
IsCommand(wire, k, cmd) ==
    IsTransfer(wire, k, 0, 1) /\ wire[4 * k - 1].data = <<cmd>>

\* C22: a drawing call that uses the bus sends colour data only directly
\* after the complete window-set sequence of the same call (column-set
\* command with two 16-bit values, page-set command with two 16-bit
\* values, memory-write command, in that order), the colour data is sent
\* with cs low and dc high, and chip-select is high when the call returns.
C22_WindowThenData ==
    /\ pins.cs = 1
    /\ (ev.op \in FillOps \cup {"pixel"} /\ ev.wire # <<>>) =>
          LET n == Len(ev.wire)
          IN  /\ n >= 24
              /\ IsCommand(ev.wire, 1, CASET)
              /\ IsTransfer(ev.wire, 2, 1, 4)
              /\ IsCommand(ev.wire, 3, PASET)
              /\ IsTransfer(ev.wire, 4, 1, 4)
              /\ IsCommand(ev.wire, 5, RAMWR)
              /\ ev.wire[21] = CsValue(0)
              /\ ev.wire[22] = DcValue(1)
              /\ \A i \in 23 .. n - 1 :
                    /\ ev.wire[i].pin = "spi"
                    /\ ev.wire[i].data = Pack16(ev.color)
                    /\ ev.wire[i].times >= 1
              /\ ev.wire[n] = CsValue(1)

\* a vline of more than 256 pixels was drawn: several colour writes
C22_Witness ==
    /\ ev.op = "vline" /\ Len(ev.wire) > 24 /\ pins.cs = 1

\* every field of the tuple is in the range the clock keeps
DtInRange(dt) ==
    /\ dt[1] \in 2000 .. 2099 /\ dt[2] \in 1 .. 12 /\ dt[3] \in 1 .. 31
    /\ dt[4] \in 1 .. 7 /\ dt[5] \in 0 .. 23
    /\ dt[6] \in 0 .. 59 /\ dt[7] \in 0 .. 59

\* C23: after datetime(dt) with every field of dt in range, datetime()
\* returns (year, month, mday, wday, hour, minute, sec, 0).
C23_RoundTrip ==
    (rtc.op = "get" /\ rtc.dt # <<>> /\ DtInRange(rtc.dt)) =>
       rtc.ret = <<rtc.dt[1], rtc.dt[2], rtc.dt[3], rtc.dt[4],
                   rtc.dt[5], rtc.dt[6], rtc.dt[7], 0>>

\* 2099-12-31, day 7, 23:59:59 was written and read back
C23_Witness ==
    /\ rtc.op = "get"
    /\ rtc.dt = <<2099, 12, 31, 7, 23, 59, 59, 0>>
    /\ rtc.ret = <<2099, 12, 31, 7, 23, 59, 59, 0>>

====
